---- MODULE Spec2Model ----
(***************************************************************************)
(* Verification model of the agentQ travel planner front end:              *)
(*   - TravelersCounter  (components/trip/TravelersCounter.jsx)            *)
(*   - ItineraryPage     (routes/ItineraryPage.jsx, src/unnamed/part_003)  *)
(*   - ChatRefinement    (components/trip/ChatRefinement.jsx, kept in      *)
(*                        src/Documents/codeBestPractices.md)              *)
(*   - apiService        (services/apiService.js, src/unnamed/part_001)    *)
(* Amounts of money are held in cents, calendar dates as <<y, m, d>>.      *)
(***************************************************************************)
EXTENDS Integers, Sequences, FiniteSets, TLC

\* ---------------------------------------------------------------- bounds
\* number of trip ids the route parameter ranges over
MaxTrips == 2
\* number of fetchItinerary invocations started in one behaviour
MaxLoads == 3
\* number of chat messages sent in one behaviour
MaxRefinements == 2
\* number of destination rows the trip form is grown to
MaxDestinations == 2
\* number of calendar days offered by the date pickers
MaxDay == 2
\* adults the travelers counter of the trip form is clicked up to
MaxParty == 2
\* number of createTrip requests issued in one behaviour
MaxCreates == 2
\* number of events in each list of a day handed to the timeline
MaxEvents == 2
MaxInputs == 3

\* ------------------------------------------------------- program constants
\* TravelersCounter.jsx:11 and :14, "Max 10 adults", "Max 10 children"
MaxAdults == 10
MaxChildren == 10
\* TravelersCounter.jsx:33, "Minimum 1 adult"
MinAdults == 1

VARIABLES
    travelers,      \* TripInitForm state handed to TravelersCounter as value
    tripId,         \* ItineraryPage: useParams().tripId
    itinerary,      \* ItineraryPage: useState(null)
    tripDetails,    \* ItineraryPage: useState(null)
    loading,        \* ItineraryPage: useState(true)
    activeDay,      \* ItineraryPage: useState(1)
    loads,          \* fetchItinerary invocations awaiting an API answer
    loadCount,      \* number of fetchItinerary invocations started so far
    stored,         \* back end: the itinerary stored per trip (or Null)
    generateRequests, \* history: generateItinerary requests issued per trip
    loadsStarted,   \* history: fetchItinerary invocations started per trip
    itineraryTrip,  \* history: the trip data the itinerary was accepted with
    failedLoads,    \* history: number of loads that ended in the catch block
    message,        \* ChatRefinement: useState('')
    chatHistory,    \* ChatRefinement: useState([greeting])
    isLoading,      \* ChatRefinement: useState(false)
    timers,         \* ChatRefinement: pending setTimeout callbacks
    sentCount,      \* number of chat messages sent so far
    refinements,    \* history: refinement requests handed to onSubmit
    origin,         \* TripInitForm: useState(null)
    destinations,   \* TripInitForm: useState([{ city: '', country: '' }])
    startDate,      \* TripInitForm: useState(null)
    endDate,        \* TripInitForm: useState(null)
    budgetLevel,    \* TripInitForm: useState('MODERATE')
    transportType,  \* TripInitForm: useState('AIR')
    naturalLanguageInput, \* TripInitForm: useState('')
    useNaturalLanguage,   \* TripInitForm: useState(true)
    errors,         \* TripInitForm: useState({}), held as its set of keys
    query,          \* LocationAutocomplete: useState(''), per instance
    isOpen,         \* LocationAutocomplete: useState(false), per instance
    currentStep,    \* NewTripPage: useState(1)
    tripData,       \* NewTripPage: useState(null)
    interests,      \* TripPreferencesForm: useState([])
    prefErrors,     \* TripPreferencesForm: errors, held as its set of keys
    pendingCreates, \* createTrip requests awaiting their response
    createCount,    \* number of createTrip requests issued so far
    navigatedTo,    \* trip id of the itinerary route navigated to, or Null
    inputCount,     \* number of LocationAutocomplete input events so far
    inputEvent,     \* history: the last of these events, or Null
    dayProp,        \* ItineraryTimeline: the day prop
    allEvents,      \* ItineraryTimeline: the sorted list on the page
    rendered        \* ItineraryTimeline: the items its render returned

travelerVars == <<travelers>>
pageVars == <<tripId, itinerary, tripDetails, loading, activeDay, loads,
              loadCount, stored, generateRequests, loadsStarted,
              itineraryTrip, failedLoads>>
chatVars == <<message, chatHistory, isLoading, timers, sentCount, refinements>>
formVars == <<origin, destinations, startDate, endDate, budgetLevel,
              transportType, naturalLanguageInput, useNaturalLanguage, errors,
              query, isOpen>>
inputVars == <<inputCount, inputEvent>>
wizardVars == <<currentStep, tripData, interests, prefErrors, pendingCreates,
                createCount, navigatedTo>>
timelineVars == <<dayProp, allEvents, rendered>>
restVars == <<formVars, wizardVars, timelineVars, inputVars>>
vars == <<travelers, tripId, itinerary, tripDetails, loading, activeDay, loads,
          loadCount, stored, generateRequests, loadsStarted, itineraryTrip,
          failedLoads, message, chatHistory, isLoading, timers, sentCount,
          refinements, origin, destinations, startDate, endDate, budgetLevel,
          transportType, naturalLanguageInput, useNaturalLanguage, errors,
          currentStep, tripData, interests, prefErrors, pendingCreates,
          createCount, navigatedTo, dayProp, allEvents, rendered, query,
          isOpen, inputCount, inputEvent>>

Min(a, b) == IF a <= b THEN a ELSE b
Max(a, b) == IF a >= b THEN a ELSE b

\* JavaScript null / an unset useState value
Null == [null |-> TRUE]

\* ====================================================== TravelersCounter
TravelerTypes == {"adults", "children", "infants"}

\* TripInitForm.jsx:12  useState({ adults: 1, children: 0, infants: 0 })
InitialTravelers == [adults |-> 1, children |-> 0, infants |-> 0]

\* TravelersCounter.jsx:6-25; the result is what onChange receives
handleIncrement(value, type) ==
    CASE type = "adults" ->
           [value EXCEPT !.adults = Min(value.adults + 1, MaxAdults)]
      [] type = "children" ->
           [value EXCEPT !.children = Min(value.children + 1, MaxChildren)]
      [] type = "infants" ->
           [value EXCEPT !.infants = Min(value.infants + 1, value.adults)]
      [] OTHER -> value

\* a decrement of adults that forgets the infants floor
handleDecrementNoInfantFloor(value, type) ==
    CASE type = "adults" ->
           [value EXCEPT !.adults = Max(value.adults - 1, MinAdults)]
      [] type = "children" ->
           [value EXCEPT !.children = Max(value.children - 1, 0)]
      [] type = "infants" ->
           [value EXCEPT !.infants = Max(value.infants - 1, 0)]
      [] OTHER -> value

\* TravelersCounter.jsx:27-46
handleDecrement(value, type) ==
    CASE type = "adults" ->
           [value EXCEPT !.adults =
               Max(value.adults - 1, Max(MinAdults, value.infants))]
      [] type = "children" ->
           [value EXCEPT !.children = Max(value.children - 1, 0)]
      [] type = "infants" ->
           [value EXCEPT !.infants = Max(value.infants - 1, 0)]
      [] OTHER -> value

\* click on a plus button: onChange = setTravelers (TripInitForm.jsx:187).
\* The handlers clamp on their own, so they are modelled without the
\* disabled attribute of the buttons (TravelersCounter.jsx:49-50).
Increment(type) ==
    travelers' = handleIncrement(travelers, type)

\* click on a minus button
Decrement(type) ==
    travelers' = handleDecrement(travelers, type)

\* ======================================================== calendar dates
\* A date 'YYYY-MM-DD' of the wire format is held as <<YYYY, MM, DD>>.
IsLeapYear(y) == (y % 4 = 0 /\ y % 100 # 0) \/ y % 400 = 0

DaysInMonth(y, m) ==
    IF m = 2 THEN (IF IsLeapYear(y) THEN 29 ELSE 28)
    ELSE IF m \in {4, 6, 9, 11} THEN 30 ELSE 31

NextDate(date) ==
    IF date[3] < DaysInMonth(date[1], date[2])
    THEN <<date[1], date[2], date[3] + 1>>
    ELSE IF date[2] < 12 THEN <<date[1], date[2] + 1, 1>>
    ELSE <<date[1] + 1, 1, 1>>

RECURSIVE AddDays(_, _)
AddDays(date, n) == IF n <= 0 THEN date ELSE AddDays(NextDate(date), n - 1)

\* longest trip the span computation looks at
MaxSpan == 10

\* inclusive span of a date range in days, 0 when end is before start or
\* further than MaxSpan days away
RECURSIVE SpanFrom(_, _, _)
SpanFrom(date, end, n) ==
    IF date = end THEN n
    ELSE IF n >= MaxSpan THEN 0
    ELSE SpanFrom(NextDate(date), end, n + 1)

InclusiveSpan(start, end) == SpanFrom(start, end, 1)

\* ================================================ canned fallback (mock)
\* part_003:44-56; the fields the page and the properties read
mockTripDetails(id) ==
    [id |-> id,
     destinations |-> <<[city |-> "Paris", country |-> "France"]>>,
     start_date |-> <<2025, 7, 15>>,
     end_date |-> <<2025, 7, 22>>,
     travelers |-> [adults |-> 2, children |-> 0, infants |-> 0],
     budget_level |-> "MODERATE",
     transport_type |-> "AIR"]

\* part_003:63-115
mockDay1 ==
    [day_number |-> 1,
     date |-> <<2025, 7, 15>>,
     activities |-> <<
        [name |-> "Eiffel Tower Visit", start_time |-> "10:00",
         cost_estimate |-> 2550],
        [name |-> "Seine River Cruise", start_time |-> "14:00",
         cost_estimate |-> 1500],
        [name |-> "Dinner at Le Jules Verne", start_time |-> "19:00",
         cost_estimate |-> 20000]>>,
     meals |-> <<
        [name |-> "Breakfast at Hotel", start_time |-> "08:00",
         cost_estimate |-> 0],
        [name |-> "Lunch at Cafe de Flore", start_time |-> "13:00",
         cost_estimate |-> 3000]>>,
     accommodation |-> [name |-> "Hotel Paris Center",
                        cost_estimate |-> 20000]]

\* the second canned day with a mistyped date
mockDay2WrongDate ==
    [day_number |-> 2,
     date |-> <<2025, 7, 17>>,
     activities |-> <<
        [name |-> "Louvre Museum", start_time |-> "09:00",
         cost_estimate |-> 1700],
        [name |-> "Luxembourg Gardens", start_time |-> "14:30",
         cost_estimate |-> 0],
        [name |-> "Shopping at Champs-Elysees", start_time |-> "16:30",
         cost_estimate |-> 10000]>>,
     meals |-> <<
        [name |-> "Breakfast at Hotel", start_time |-> "08:00",
         cost_estimate |-> 0],
        [name |-> "Lunch at Angelina", start_time |-> "13:30",
         cost_estimate |-> 2500],
        [name |-> "Dinner at Le Comptoir", start_time |-> "19:30",
         cost_estimate |-> 4500]>>,
     accommodation |-> [name |-> "Hotel Paris Center",
                        cost_estimate |-> 20000]]

\* part_003:116-175
mockDay2 ==
    [day_number |-> 2,
     date |-> <<2025, 7, 16>>,
     activities |-> <<
        [name |-> "Louvre Museum", start_time |-> "09:00",
         cost_estimate |-> 1700],
        [name |-> "Luxembourg Gardens", start_time |-> "14:30",
         cost_estimate |-> 0],
        [name |-> "Shopping at Champs-Elysees", start_time |-> "16:30",
         cost_estimate |-> 10000]>>,
     meals |-> <<
        [name |-> "Breakfast at Hotel", start_time |-> "08:00",
         cost_estimate |-> 0],
        [name |-> "Lunch at Angelina", start_time |-> "13:30",
         cost_estimate |-> 2500],
        [name |-> "Dinner at Le Comptoir", start_time |-> "19:30",
         cost_estimate |-> 4500]>>,
     accommodation |-> [name |-> "Hotel Paris Center",
                        cost_estimate |-> 20000]]

\* part_003:58-178; total_cost_estimate: 3500 dollars, no version field
mockItinerary(id) ==
    [trip_id |-> id,
     ai_generated |-> TRUE,
     total_cost_estimate |-> 350000,
     days |-> <<mockDay1, mockDay2>>]

\* ===================================================== itinerary helpers
RECURSIVE SumCosts(_)
SumCosts(events) ==
    IF events = <<>> THEN 0
    ELSE Head(events).cost_estimate + SumCosts(Tail(events))

DayCost(day) ==
    SumCosts(day.activities) + SumCosts(day.meals)
    + (IF "accommodation" \in DOMAIN day THEN day.accommodation.cost_estimate
       ELSE 0)

RECURSIVE SumDays(_)
SumDays(days) ==
    IF days = <<>> THEN 0 ELSE DayCost(Head(days)) + SumDays(Tail(days))

DayNumbers(it) == {it.days[i].day_number : i \in 1..Len(it.days)}

\* ============================================================== back end
\* The back end is reached through apiService only; what it answers is
\* taken from the specification of the Trip and Itinerary shapes.
TripIds == 1..MaxTrips

FirstStartDate == <<2025, 7, 29>>

ServerTrip(id) ==
    [id |-> id,
     destinations |-> <<[city |-> "Rome", country |-> "Italy"]>>,
     start_date |-> AddDays(FirstStartDate, id),
     end_date |-> AddDays(FirstStartDate, id + 1 + (id % 2)),
     travelers |-> [adults |-> 1, children |-> 0, infants |-> 0],
     budget_level |-> "MODERATE",
     transport_type |-> "AIR"]

\* the generation capability is not deterministic: two outputs per trip
GenerationVariants == {1, 2}

GeneratedDay(trip, n, variant) ==
    [day_number |-> n,
     date |-> AddDays(trip.start_date, n - 1),
     activities |-> <<[name |-> "Walking tour", start_time |-> "10:00",
                       cost_estimate |-> 1000 * variant + n]>>,
     meals |-> <<[name |-> "Lunch", start_time |-> "13:00",
                  cost_estimate |-> 1500]>>,
     accommodation |-> [name |-> "Hotel", cost_estimate |-> 8000]]

GeneratedDays(trip, variant) ==
    [n \in 1..InclusiveSpan(trip.start_date, trip.end_date) |->
        GeneratedDay(trip, n, variant)]

GeneratedItinerary(id, variant) ==
    [trip_id |-> id,
     ai_generated |-> TRUE,
     total_cost_estimate |-> SumDays(GeneratedDays(ServerTrip(id), variant)),
     days |-> GeneratedDays(ServerTrip(id), variant),
     version |-> 1]

\* ========================================================= ItineraryPage
\* a catch block that forgets setTripDetails
CatchTripDetailsKept(id) == tripDetails

\* part_003:44-181, the catch block: both canned values are set together
CatchTripDetails(id) == mockTripDetails(id)
CatchItinerary(id) == mockItinerary(id)

\* the page is past its loading and not-found returns (part_003:211-226)
Displayed == ~loading /\ itinerary # Null /\ tripDetails # Null

\* part_003:219-226
NotFoundShown == ~loading /\ (itinerary = Null \/ tripDetails = Null)

\* part_003:228
currentDayItinerary ==
    IF \E i \in 1..Len(itinerary.days) : itinerary.days[i].day_number = activeDay
    THEN itinerary.days[CHOOSE i \in 1..Len(itinerary.days) :
            /\ itinerary.days[i].day_number = activeDay
            /\ \A j \in 1..(i - 1) : itinerary.days[j].day_number # activeDay]
    ELSE itinerary.days[1]

\* ChatRefinement.jsx (codeBestPractices.md:35-39): useState initial values
InitialChatHistory == <<[role |-> "assistant", content |-> <<"greeting">>]>>

\* ChatRefinement leaves the tree when the page shows its spinner: its
\* state is dropped, its pending timeouts stay scheduled
UnmountedTimers == {[tm EXCEPT !.live = FALSE] : tm \in timers}

ChatUnmount ==
    /\ message' = <<>>
    /\ chatHistory' = InitialChatHistory
    /\ isLoading' = FALSE
    /\ timers' = UnmountedTimers
    /\ UNCHANGED <<sentCount, refinements>>

\* part_003:15-22: the effect starts fetchItinerary, which sets loading and
\* awaits apiService.getTrip(tripId)
NewLoad(id) == [n |-> loadCount + 1, id |-> id, pc |-> "getTrip"]

\* first mount of the page for a route /trips/:tripId/itinerary
\* (part_003:9-13), dropping whatever an earlier page instance awaited
MountPage(id) ==
    /\ loadCount < MaxLoads
    /\ tripId' = id
    /\ itinerary' = Null
    /\ tripDetails' = Null
    /\ loading' = TRUE
    /\ activeDay' = 1
    /\ loads' = {NewLoad(id)}
    /\ loadCount' = loadCount + 1
    /\ loadsStarted' = [loadsStarted EXCEPT ![id] = @ + 1]
    /\ itineraryTrip' = Null
    /\ message' = <<>>
    /\ chatHistory' = InitialChatHistory
    /\ isLoading' = FALSE
    /\ timers' = {}
    /\ UNCHANGED <<travelers, stored, generateRequests, failedLoads,
                   sentCount, refinements>>
    /\ UNCHANGED restVars

\* the route parameter changes under the mounted page: the effect of
\* part_003:15-190 runs again (dependency [tripId]), nothing is cancelled
ChangeTripId(id) ==
    /\ loadCount < MaxLoads
    /\ id # tripId
    /\ tripId' = id
    /\ loading' = TRUE
    /\ loads' = loads \cup {NewLoad(id)}
    /\ loadCount' = loadCount + 1
    /\ loadsStarted' = [loadsStarted EXCEPT ![id] = @ + 1]
    /\ ChatUnmount
    /\ UNCHANGED <<travelers, itinerary, tripDetails, activeDay, stored,
                   generateRequests, itineraryTrip, failedLoads>>
    /\ UNCHANGED restVars

\* part_003:22-28: getTrip answered; setTripDetails, then getItinerary
GetTripOk(l) ==
    /\ l \in loads /\ l.pc = "getTrip"
    /\ tripDetails' = ServerTrip(l.id)
    /\ loads' = (loads \ {l}) \cup {[l EXCEPT !.pc = "getItinerary"]}
    /\ UNCHANGED <<travelers, tripId, itinerary, loading, activeDay, loadCount,
                   stored, generateRequests, loadsStarted, itineraryTrip,
                   failedLoads>>
    /\ UNCHANGED chatVars
    /\ UNCHANGED restVars

\* a catch block that is not followed by the finally block
LoadCatchKeepsLoading(l) ==
    /\ tripDetails' = CatchTripDetails(l.id)
    /\ itinerary' = CatchItinerary(l.id)
    /\ itineraryTrip' = CatchTripDetails(l.id)
    /\ loads' = loads \ {l}
    /\ failedLoads' = failedLoads + 1
    /\ UNCHANGED <<travelers, tripId, activeDay, loadCount, stored,
                   generateRequests, loadsStarted, loading>>
    /\ UNCHANGED chatVars
    /\ UNCHANGED restVars

\* part_003:39-186: the catch block and the finally block of a failed load;
\* tripId in the canned values is the one the load was started for. The
\* second catch clause of the same try (part_003:182-183) handles nothing:
\* the first one takes every error of the load.
LoadCatch(l) ==
    /\ tripDetails' = CatchTripDetails(l.id)
    /\ itinerary' = CatchItinerary(l.id)
    /\ itineraryTrip' = CatchTripDetails(l.id)
    /\ loading' = FALSE
    /\ loads' = loads \ {l}
    /\ failedLoads' = failedLoads + 1
    /\ UNCHANGED <<travelers, tripId, activeDay, loadCount, stored,
                   generateRequests, loadsStarted>>
    /\ UNCHANGED chatVars
    /\ UNCHANGED restVars

\* part_003:22 throws
GetTripFail(l) ==
    /\ l \in loads /\ l.pc = "getTrip"
    /\ LoadCatch(l)

\* part_003:28-29 and :184-186: getItinerary answered 200
GetItineraryOk(l) ==
    /\ l \in loads /\ l.pc = "getItinerary"
    /\ stored[l.id] # Null
    /\ itinerary' = stored[l.id]
    /\ itineraryTrip' = ServerTrip(l.id)
    /\ loading' = FALSE
    /\ loads' = loads \ {l}
    /\ UNCHANGED <<travelers, tripId, tripDetails, activeDay, loadCount,
                   stored, generateRequests, loadsStarted, failedLoads>>
    /\ UNCHANGED chatVars
    /\ UNCHANGED restVars

\* part_003:30-33: getItinerary answered 404; generateItinerary is issued
GetItineraryNotFound(l) ==
    /\ l \in loads /\ l.pc = "getItinerary"
    /\ stored[l.id] = Null
    /\ loads' = (loads \ {l}) \cup {[l EXCEPT !.pc = "generateItinerary"]}
    /\ generateRequests' = [generateRequests EXCEPT ![l.id] = @ + 1]
    /\ UNCHANGED <<travelers, tripId, itinerary, tripDetails, loading,
                   activeDay, loadCount, stored, loadsStarted, itineraryTrip,
                   failedLoads>>
    /\ UNCHANGED chatVars
    /\ UNCHANGED restVars

\* a load that generates an itinerary after any error of getItinerary
GetItineraryFailGenerates(l) ==
    /\ l \in loads /\ l.pc = "getItinerary"
    /\ loads' = (loads \ {l}) \cup {[l EXCEPT !.pc = "generateItinerary"]}
    /\ generateRequests' = [generateRequests EXCEPT ![l.id] = @ + 1]
    /\ UNCHANGED <<travelers, tripId, itinerary, tripDetails, loading,
                   activeDay, loadCount, stored, loadsStarted, itineraryTrip,
                   failedLoads>>
    /\ UNCHANGED chatVars
    /\ UNCHANGED restVars

\* part_003:35-37: getItinerary failed with anything but a 404
GetItineraryFail(l) ==
    /\ l \in loads /\ l.pc = "getItinerary"
    /\ LoadCatch(l)

\* part_003:33-34 and :184-186: the back end generated and stored an
\* itinerary and answered with it
GenerateOk(l, variant) ==
    /\ l \in loads /\ l.pc = "generateItinerary"
    /\ stored' = [stored EXCEPT ![l.id] = GeneratedItinerary(l.id, variant)]
    /\ itinerary' = GeneratedItinerary(l.id, variant)
    /\ itineraryTrip' = ServerTrip(l.id)
    /\ loading' = FALSE
    /\ loads' = loads \ {l}
    /\ UNCHANGED <<travelers, tripId, tripDetails, activeDay, loadCount,
                   generateRequests, loadsStarted, failedLoads>>
    /\ UNCHANGED chatVars
    /\ UNCHANGED restVars

\* a load that answers a failed generation by asking again
GenerateFailRetries(l) ==
    /\ l \in loads /\ l.pc = "generateItinerary"
    /\ generateRequests[l.id] <= MaxLoads
    /\ generateRequests' = [generateRequests EXCEPT ![l.id] = @ + 1]
    /\ UNCHANGED <<travelers, tripId, itinerary, tripDetails, loading,
                   activeDay, loads, loadCount, stored, loadsStarted,
                   itineraryTrip, failedLoads>>
    /\ UNCHANGED chatVars
    /\ UNCHANGED restVars

\* part_003:33 throws
GenerateFail(l) ==
    /\ l \in loads /\ l.pc = "generateItinerary"
    /\ LoadCatch(l)

\* part_003:192-194 and :256-260: a click on a day of the sidebar
handleDayChange(dayNumber) ==
    /\ Displayed
    /\ dayNumber \in DayNumbers(itinerary)
    /\ activeDay' = dayNumber
    /\ UNCHANGED <<travelers, tripId, itinerary, tripDetails, loading, loads,
                   loadCount, stored, generateRequests, loadsStarted,
                   itineraryTrip, failedLoads>>
    /\ UNCHANGED chatVars
    /\ UNCHANGED restVars

\* ======================================================== ChatRefinement
\* A text is a sequence of characters; " " stands for any white space.
Messages == {<<>>, <<" ">>, <<"a">>, <<" ", "b", " ">>}

\* String.prototype.trim
RECURSIVE TrimLeft(_)
TrimLeft(s) ==
    IF s # <<>> /\ Head(s) = " " THEN TrimLeft(Tail(s)) ELSE s

RECURSIVE TrimRight(_)
TrimRight(s) ==
    IF s # <<>> /\ s[Len(s)] = " " THEN TrimRight(SubSeq(s, 1, Len(s) - 1))
    ELSE s

Trim(s) == TrimRight(TrimLeft(s))

\* codeBestPractices.md:67
aiResponse == <<"I've updated your itinerary based on your request.">>

\* a refinement handler that regenerates the whole itinerary
handleRefinementSubmitRegenerates(it, request, threw) ==
    IF threw \/ it = Null THEN it
    ELSE [it EXCEPT !.days =
            [i \in DOMAIN it.days |-> [it.days[i] EXCEPT !.activities = <<>>]]]

\* a refinement handler that has replaced the target day when it fails
handleRefinementSubmitPartial(it, request, threw) ==
    IF threw /\ it # Null
    THEN [it EXCEPT !.days =
            [i \in DOMAIN it.days |->
                IF it.days[i].day_number = request.specific_day
                THEN [it.days[i] EXCEPT !.activities = <<>>]
                ELSE it.days[i]]]
    ELSE it

\* part_003:196-209: the itinerary the page holds after the handler ran for
\* `request`; threw tells whether the try block (console.log, alert) threw
\* and the catch block ran. Neither branch calls apiService.refineItinerary
\* or setItinerary.
handleRefinementSubmit(it, request, threw) == it

\* the alert of part_003:202 or :207
RefinementAlert(threw) ==
    IF threw THEN "Failed to refine itinerary. Please try again."
    ELSE "Itinerary refinement request sent! The AI is processing your request."

\* codeBestPractices.md:149 and :152: typing into the input
setMessage(m) ==
    /\ Displayed
    /\ ~isLoading
    /\ message' = m
    /\ UNCHANGED <<chatHistory, isLoading, timers, sentCount, refinements>>
    /\ UNCHANGED travelerVars
    /\ UNCHANGED restVars
    /\ UNCHANGED pageVars

\* codeBestPractices.md:89-94, the first of the four suggestions
suggestions == {<<"Add more outdoor activities to day 2">>}

\* codeBestPractices.md:96-98 and :134-141: a click on a suggestion chip;
\* the chips are outside the form and are never disabled
handleSuggestionClick(suggestion) ==
    /\ Displayed
    /\ message' = suggestion
    /\ UNCHANGED <<chatHistory, isLoading, timers, sentCount, refinements>>
    /\ UNCHANGED travelerVars
    /\ UNCHANGED restVars
    /\ UNCHANGED pageVars

\* codeBestPractices.md:152: the input, where Enter submits the form
InputDisabled == isLoading

\* a send button that is live while a reply is awaited
SendDisabledWhileBlank == Trim(message) = <<>>

\* codeBestPractices.md:157
SendDisabled == Trim(message) = <<>> \/ isLoading

\* a send that takes the message as it is typed, blank or not
handleSendMessageBlank ==
    /\ Displayed
    /\ sentCount < MaxRefinements
    /\ ~isLoading
    /\ chatHistory' = Append(chatHistory, [role |-> "user", content |-> message])
    /\ message' = <<>>
    /\ isLoading' = TRUE
    /\ timers' = timers \cup
          {[n |-> sentCount + 1,
            request |-> [natural_language_request |-> message,
                         specific_day |-> activeDay],
            against |-> itinerary,
            live |-> TRUE]}
    /\ sentCount' = sentCount + 1
    /\ UNCHANGED refinements
    /\ UNCHANGED travelerVars
    /\ UNCHANGED restVars
    /\ UNCHANGED pageVars

\* codeBestPractices.md:41-77 up to the setTimeout call; the form submits
\* through the send button (:155-157) or through Enter in the input (:152)
handleSendMessage ==
    /\ Displayed
    /\ sentCount < MaxRefinements
    /\ ~SendDisabled \/ ~InputDisabled
    /\ Trim(message) # <<>>
    /\ chatHistory' = Append(chatHistory, [role |-> "user", content |-> message])
    /\ message' = <<>>
    /\ isLoading' = TRUE
    /\ timers' = timers \cup
          {[n |-> sentCount + 1,
            request |-> [natural_language_request |-> message,
                         specific_day |-> activeDay],
            against |-> itinerary,
            live |-> TRUE]}
    /\ sentCount' = sentCount + 1
    /\ UNCHANGED refinements
    /\ UNCHANGED travelerVars
    /\ UNCHANGED restVars
    /\ UNCHANGED pageVars

\* a timeout that leaves the chat loading
TimeoutFiresKeepsLoading(tm, threw) ==
    /\ tm \in timers
    /\ chatHistory' = IF tm.live
                      THEN Append(chatHistory,
                                  [role |-> "assistant", content |-> aiResponse])
                      ELSE chatHistory
    /\ itinerary' = handleRefinementSubmit(itinerary, tm.request, threw)
    /\ refinements' = Append(refinements,
                             [request |-> tm.request,
                              against |-> tm.against,
                              result |-> handleRefinementSubmit(
                                            itinerary, tm.request, threw),
                              reply |-> aiResponse,
                              alert |-> RefinementAlert(threw)])
    /\ timers' = timers \ {tm}
    /\ UNCHANGED <<message, sentCount, isLoading>>
    /\ UNCHANGED travelerVars
    /\ UNCHANGED restVars
    /\ UNCHANGED <<tripId, tripDetails, loading, activeDay, loads, loadCount,
                   stored, generateRequests, loadsStarted, itineraryTrip,
                   failedLoads>>

\* codeBestPractices.md:66-77: the timeout fires; the reply is appended,
\* onSubmit = handleRefinementSubmit (part_003:354) runs, loading ends.
\* The state setters of an unmounted ChatRefinement do nothing.
TimeoutFires(tm, threw) ==
    /\ tm \in timers
    /\ chatHistory' = IF tm.live
                      THEN Append(chatHistory,
                                  [role |-> "assistant", content |-> aiResponse])
                      ELSE chatHistory
    /\ isLoading' = IF tm.live THEN FALSE ELSE isLoading
    /\ itinerary' = handleRefinementSubmit(itinerary, tm.request, threw)
    /\ refinements' = Append(refinements,
                             [request |-> tm.request,
                              against |-> tm.against,
                              result |-> handleRefinementSubmit(
                                            itinerary, tm.request, threw),
                              reply |-> aiResponse,
                              alert |-> RefinementAlert(threw)])
    /\ timers' = timers \ {tm}
    /\ UNCHANGED <<message, sentCount>>
    /\ UNCHANGED travelerVars
    /\ UNCHANGED restVars
    /\ UNCHANGED <<tripId, tripDetails, loading, activeDay, loads, loadCount,
                   stored, generateRequests, loadsStarted, itineraryTrip,
                   failedLoads>>

\* ========================================================== TripInitForm
\* The form of src/backend/build.sh:185-499, which has both entry modes;
\* components/trip/TripInitForm.jsx is its structured branch alone.
BlankLocation == [city |-> "", country |-> ""]

\* part_000:5-21, the first entry of the list
MOCK_LOCATIONS == {[city |-> "Paris", country |-> "France"]}

\* what LocationAutocomplete hands to onChange (part_000:71 and :75)
LocationValues == MOCK_LOCATIONS \cup {Null}

\* build.sh:233 and :238, negated: !x || !x.city || !x.country
IsCompleteLocation(loc) == loc # Null /\ loc.city # "" /\ loc.country # ""

\* a JavaScript Date picked in a DatePicker: local midnight of day `time`
DateValues == {[time |-> n] : n \in 1..MaxDay}

\* the calendar day before day 1 of the date pickers
FormEpoch == <<2025, 7, 30>>

\* build.sh:290-291: date.toISOString().split('T')[0]; toISOString prints
\* the UTC date, which east of Greenwich is the day before the local one
toISODate(date, east) ==
    [iso |-> AddDays(FormEpoch, date.time - (IF east THEN 1 ELSE 0))]

\* order of two wire dates 'YYYY-MM-DD', held as [iso |-> <<y, m, d>>]
DateLeq(a, b) ==
    \/ a.iso[1] < b.iso[1]
    \/ a.iso[1] = b.iso[1] /\ a.iso[2] < b.iso[2]
    \/ a.iso[1] = b.iso[1] /\ a.iso[2] = b.iso[2] /\ a.iso[3] <= b.iso[3]

\* texts typed into the textarea; " " stands for any white space
DescriptionTexts == {<<>>, <<" ">>, <<"a">>}

BudgetLevels == {"MODERATE", "LUXURY"}
TransportTypes == {"AIR", "ROAD"}

\* the rows of the counter clicked in the trip form
FormTravelerTypes == {"adults", "infants"}

\* a test that takes white space for a description
isBlankUntrimmed(text) == text = <<>>

\* build.sh:228: !naturalLanguageInput.trim()
isBlank(text) == Trim(text) = <<>>

\* build.sh:237-239
hasInvalidDestination ==
    \E i \in 1..Len(destinations) : ~IsCompleteLocation(destinations[i])

\* a test that finds every pair of dates in order
startAfterEndNever == FALSE

\* build.sh:253: startDate && endDate && startDate > endDate
startAfterEnd ==
    startDate # Null /\ endDate # Null /\ startDate.time > endDate.time

\* build.sh:223-260: the keys of newErrors; the form is valid when empty
validateForm ==
    IF useNaturalLanguage
    THEN (IF isBlank(naturalLanguageInput)
          THEN {"naturalLanguageInput"} ELSE {})
    ELSE (IF ~IsCompleteLocation(origin) THEN {"origin"} ELSE {})
         \cup (IF hasInvalidDestination THEN {"destinations"} ELSE {})
         \cup (IF startDate = Null THEN {"startDate"} ELSE {})
         \cup (IF endDate = Null THEN {"endDate"} ELSE {})
         \cup (IF startAfterEnd THEN {"dateRange"} ELSE {})

\* a natural-language submission that sends the structured fields along
NaturalLanguageTripDataFromFields ==
    [natural_language_input |-> naturalLanguageInput,
     use_natural_language |-> TRUE,
     origin |-> Null,
     destinations |-> destinations,
     start_date |-> Null,
     end_date |-> Null,
     travelers |-> travelers,
     budget_level |-> budgetLevel,
     transport_type |-> transportType]

\* build.sh:272-283
NaturalLanguageTripData ==
    [natural_language_input |-> naturalLanguageInput,
     use_natural_language |-> TRUE,
     origin |-> Null,
     destinations |-> <<>>,
     start_date |-> Null,
     end_date |-> Null,
     travelers |-> [adults |-> 1, children |-> 0, infants |-> 0],
     budget_level |-> "MODERATE",
     transport_type |-> "AIR"]

\* build.sh:287-296
StructuredTripData(east) ==
    [origin |-> origin,
     destinations |-> SelectSeq(destinations, IsCompleteLocation),
     start_date |-> toISODate(startDate, east),
     end_date |-> toISODate(endDate, east),
     travelers |-> travelers,
     budget_level |-> budgetLevel,
     transport_type |-> transportType,
     use_natural_language |-> FALSE]

\* part_001:14-21: the request apiService.createTrip posts
createTrip(data) ==
    [n |-> createCount + 1,
     url |-> IF data.use_natural_language THEN "/trips/natural" ELSE "/trips/",
     body |-> data]

\* NewTripPage.jsx:113: TripInitForm is rendered at step 1 only
FormShown == navigatedTo = Null /\ currentStep = 1

\* build.sh:339: the structured fields are rendered in structured mode only
StructuredShown == FormShown /\ ~useNaturalLanguage

\* NewTripPage.jsx:114
PreferencesShown == navigatedTo = Null /\ currentStep = 2

\* ---------------------------------------------------- LocationAutocomplete
\* the characters of the names of MOCK_LOCATIONS
Characters(name) ==
    CASE name = "Paris" -> <<"P", "a", "r", "i", "s">>
      [] name = "France" -> <<"F", "r", "a", "n", "c", "e">>
      [] OTHER -> <<>>

\* String.prototype.toLowerCase
toLowerCase(text) ==
    [i \in 1..Len(text) |->
        CASE text[i] = "P" -> "p"
          [] text[i] = "F" -> "f"
          [] OTHER -> text[i]]

\* String.prototype.includes
includes(text, part) ==
    \E i \in 1..(Len(text) - Len(part) + 1) :
        SubSeq(text, i, i + Len(part) - 1) = part

\* part_000:30-34: the text the value-sync effect gives to setQuery
formatValue(value) ==
    IF value # Null
    THEN Characters(value.city) \o <<",", " ">> \o Characters(value.country)
    ELSE <<>>

\* part_000:29-35: the effect runs when the value prop has changed, after
\* the handler's own setQuery(q). Two blank destination objects are never
\* the same object, but the query of a blank value is ", " in either case.
valueSync(q, old, new) == IF new = old THEN q ELSE formatValue(new)

\* part_000:51-66: the suggestions the search effect computes for a query
filteredLocations(q) ==
    IF Trim(q) = <<>> THEN {}
    ELSE {location \in MOCK_LOCATIONS :
            \/ includes(toLowerCase(Characters(location.city)), toLowerCase(q))
            \/ includes(toLowerCase(Characters(location.country)),
                        toLowerCase(q))}

\* e.target.value of a change event of the input (part_000:69)
InputTexts == {<<>>, <<" ">>, <<"P">>, <<"x">>, <<",", " ", "P">>}

\* the instances on the page: id="origin" and, per destination row,
\* id=`destination-${index}` (build.sh:345-365), rows counted from 1
FieldIds ==
    {[id |-> "origin"]}
        \cup {[id |-> "destination", index |-> i] : i \in 1..Len(destinations)}

\* the parent's state behind the value prop of an instance
valueOf(field) ==
    IF field.id = "origin" THEN origin ELSE destinations[field.index]

queryOf(field) ==
    IF field.id = "origin" THEN query.origin
    ELSE query.destinations[field.index]

isOpenOf(field) ==
    IF field.id = "origin" THEN isOpen.origin
    ELSE isOpen.destinations[field.index]

\* the states of the instances with that of one instance replaced
WithField(states, field, state) ==
    IF field.id = "origin" THEN [states EXCEPT !.origin = state]
    ELSE [states EXCEPT !.destinations[field.index] = state]

\* no LocationAutocomplete is on the page (build.sh:339)
NoQuery == [origin |-> <<>>, destinations |-> <<>>]

NoOpen == [origin |-> FALSE, destinations |-> <<>>]

\* part_000:24-35: the instances after they mounted with these values
MountedQuery(o, d) ==
    [origin |-> formatValue(o),
     destinations |-> [i \in 1..Len(d) |-> formatValue(d[i])]]

MountedOpen(d) ==
    [origin |-> FALSE, destinations |-> [i \in 1..Len(d) |-> FALSE]]

InitInput ==
    /\ inputCount = 0
    /\ inputEvent = Null

\* build.sh:193-202
InitForm ==
    /\ origin = Null
    /\ destinations = <<BlankLocation>>
    /\ startDate = Null
    /\ endDate = Null
    /\ budgetLevel = "MODERATE"
    /\ transportType = "AIR"
    /\ naturalLanguageInput = <<>>
    /\ useNaturalLanguage = TRUE
    /\ errors = {}
    /\ query = NoQuery
    /\ isOpen = NoOpen

\* a TripInitForm that leaves the tree loses its state; the next one
\* starts from the useState initial values (build.sh:193-202)
FormUnmount ==
    /\ origin' = Null
    /\ destinations' = <<BlankLocation>>
    /\ startDate' = Null
    /\ endDate' = Null
    /\ travelers' = InitialTravelers
    /\ budgetLevel' = "MODERATE"
    /\ transportType' = "AIR"
    /\ naturalLanguageInput' = <<>>
    /\ useNaturalLanguage' = TRUE
    /\ errors' = {}
    /\ query' = NoQuery
    /\ isOpen' = NoOpen

OutsideWizard == <<pageVars, chatVars, timelineVars, inputVars>>

\* build.sh:318
setNaturalLanguageInput(text) ==
    /\ FormShown
    /\ naturalLanguageInput' = text
    /\ UNCHANGED <<query, isOpen>>
    /\ UNCHANGED <<origin, destinations, startDate, endDate, budgetLevel,
                   transportType, useNaturalLanguage, errors, travelers>>
    /\ UNCHANGED <<wizardVars, OutsideWizard>>

\* build.sh:328
toggleNaturalLanguage ==
    /\ FormShown
    /\ useNaturalLanguage' = ~useNaturalLanguage
    /\ query' = IF useNaturalLanguage THEN MountedQuery(origin, destinations)
                ELSE NoQuery
    /\ isOpen' = IF useNaturalLanguage THEN MountedOpen(destinations)
                 ELSE NoOpen
    /\ UNCHANGED <<origin, destinations, startDate, endDate, budgetLevel,
                   transportType, naturalLanguageInput, errors, travelers>>
    /\ UNCHANGED <<wizardVars, OutsideWizard>>

\* build.sh:345-350: typing in the origin input (null) or picking a
\* suggestion (a location)
setOrigin(location) ==
    /\ StructuredShown
    /\ origin' = location
    /\ query' = [query EXCEPT !.origin = valueSync(@, origin, location)]
    /\ UNCHANGED isOpen
    /\ UNCHANGED <<destinations, startDate, endDate, budgetLevel,
                   transportType, naturalLanguageInput, useNaturalLanguage,
                   errors, travelers>>
    /\ UNCHANGED <<wizardVars, OutsideWizard>>

\* build.sh:205-209
handleDestinationChange(index, destination) ==
    /\ StructuredShown
    /\ index \in 1..Len(destinations)
    /\ destinations' = [destinations EXCEPT ![index] = destination]
    /\ query' = [query EXCEPT !.destinations[index] =
                    valueSync(@, destinations[index], destination)]
    /\ UNCHANGED isOpen
    /\ UNCHANGED <<origin, startDate, endDate, budgetLevel, transportType,
                   naturalLanguageInput, useNaturalLanguage, errors, travelers>>
    /\ UNCHANGED <<wizardVars, OutsideWizard>>

\* build.sh:211-213
addDestination ==
    /\ StructuredShown
    /\ Len(destinations) < MaxDestinations
    /\ destinations' = Append(destinations, BlankLocation)
    /\ query' = [query EXCEPT !.destinations =
                    Append(@, formatValue(BlankLocation))]
    /\ isOpen' = [isOpen EXCEPT !.destinations = Append(@, FALSE)]
    /\ UNCHANGED <<origin, startDate, endDate, budgetLevel, transportType,
                   naturalLanguageInput, useNaturalLanguage, errors, travelers>>
    /\ UNCHANGED <<wizardVars, OutsideWizard>>

\* the rows left when row `index` is filtered out
WithoutRow(rows, index) ==
    [i \in 1..(Len(rows) - 1) |-> IF i < index THEN rows[i] ELSE rows[i + 1]]

\* build.sh:357 (key={index}): the instances of the rows that are left keep
\* their state, each with the value of the row now at its index
RowsSynced(rows) ==
    /\ query' = [query EXCEPT !.destinations =
                    [i \in 1..Len(rows) |->
                        valueSync(query.destinations[i], destinations[i],
                                  rows[i])]]
    /\ isOpen' = [isOpen EXCEPT !.destinations =
                     [i \in 1..Len(rows) |-> isOpen.destinations[i]]]

\* a removal that does not look at the number of rows
removeDestinationUnguarded(index) ==
    /\ StructuredShown
    /\ index \in 1..Len(destinations)
    /\ destinations' = WithoutRow(destinations, index)
    /\ RowsSynced(WithoutRow(destinations, index))
    /\ UNCHANGED <<origin, startDate, endDate, budgetLevel, transportType,
                   naturalLanguageInput, useNaturalLanguage, errors, travelers>>
    /\ UNCHANGED <<wizardVars, OutsideWizard>>

\* build.sh:215-220
removeDestination(index) ==
    /\ StructuredShown
    /\ index \in 1..Len(destinations)
    /\ destinations' = IF Len(destinations) > 1
                       THEN WithoutRow(destinations, index)
                       ELSE destinations
    /\ RowsSynced(IF Len(destinations) > 1
                  THEN WithoutRow(destinations, index)
                  ELSE destinations)
    /\ UNCHANGED <<origin, startDate, endDate, budgetLevel, transportType,
                   naturalLanguageInput, useNaturalLanguage, errors, travelers>>
    /\ UNCHANGED <<wizardVars, OutsideWizard>>

\* part_000:68-72 with :29-35: the text of the input was edited to `text`;
\* setQuery, setIsOpen(true) and onChange(null), which is setOrigin or
\* handleDestinationChange of the form, then the value-sync effect
handleInputChange(field, text) ==
    /\ StructuredShown
    /\ field \in FieldIds
    /\ text # queryOf(field)
    /\ inputCount < MaxInputs
    /\ origin' = IF field.id = "origin" THEN Null ELSE origin
    /\ destinations' = IF field.id = "origin" THEN destinations
                       ELSE [destinations EXCEPT ![field.index] = Null]
    /\ query' = WithField(query, field, valueSync(text, valueOf(field), Null))
    /\ isOpen' = WithField(isOpen, field, TRUE)
    /\ inputCount' = inputCount + 1
    /\ inputEvent' = [type |-> "change", target |-> field, value |-> text]
    /\ UNCHANGED <<startDate, endDate, budgetLevel, transportType,
                   naturalLanguageInput, useNaturalLanguage, errors, travelers>>
    /\ UNCHANGED <<wizardVars, pageVars, chatVars, timelineVars>>

\* part_000:74-77 and :92-99 with :29-35: a suggestion of the open dropdown
\* was clicked; onChange(location), setIsOpen(false), then the effect
handleSelectLocation(field, location) ==
    /\ StructuredShown
    /\ field \in FieldIds
    /\ isOpenOf(field)
    /\ location \in filteredLocations(queryOf(field))
    /\ inputCount < MaxInputs
    /\ origin' = IF field.id = "origin" THEN location ELSE origin
    /\ destinations' = IF field.id = "origin" THEN destinations
                       ELSE [destinations EXCEPT ![field.index] = location]
    /\ query' = WithField(query, field,
                          valueSync(queryOf(field), valueOf(field), location))
    /\ isOpen' = WithField(isOpen, field, FALSE)
    /\ inputCount' = inputCount + 1
    /\ inputEvent' = [type |-> "click", target |-> field, location |-> location]
    /\ UNCHANGED <<startDate, endDate, budgetLevel, transportType,
                   naturalLanguageInput, useNaturalLanguage, errors, travelers>>
    /\ UNCHANGED <<wizardVars, pageVars, chatVars, timelineVars>>

\* part_000:88: onFocus
handleFocus(field) ==
    /\ StructuredShown
    /\ field \in FieldIds
    /\ isOpen' = WithField(isOpen, field,
                           Trim(queryOf(field)) # <<>> \/ isOpenOf(field))
    /\ UNCHANGED <<origin, destinations, startDate, endDate, budgetLevel,
                   transportType, naturalLanguageInput, useNaturalLanguage,
                   errors, query, travelers>>
    /\ UNCHANGED <<wizardVars, OutsideWizard>>

\* part_000:38-48: a mousedown in the wrapper of `target`, or in none when
\* target is the document; every other instance closes its dropdown
handleClickOutside(target) ==
    /\ StructuredShown
    /\ target \in FieldIds \cup {[id |-> "document"]}
    /\ isOpen' = [origin |-> target.id = "origin" /\ isOpen.origin,
                  destinations |->
                      [i \in 1..Len(destinations) |->
                          /\ target = [id |-> "destination", index |-> i]
                          /\ isOpen.destinations[i]]]
    /\ UNCHANGED <<origin, destinations, startDate, endDate, budgetLevel,
                   transportType, naturalLanguageInput, useNaturalLanguage,
                   errors, query, travelers>>
    /\ UNCHANGED <<wizardVars, OutsideWizard>>

\* build.sh:400-410
setStartDate(date) ==
    /\ StructuredShown
    /\ startDate' = date
    /\ UNCHANGED <<query, isOpen>>
    /\ UNCHANGED <<origin, destinations, endDate, budgetLevel, transportType,
                   naturalLanguageInput, useNaturalLanguage, errors, travelers>>
    /\ UNCHANGED <<wizardVars, OutsideWizard>>

\* build.sh:416-426: the end picker offers no day before startDate
setEndDate(date) ==
    /\ StructuredShown
    /\ IF startDate = Null THEN TRUE ELSE date.time >= startDate.time
    /\ endDate' = date
    /\ UNCHANGED <<query, isOpen>>
    /\ UNCHANGED <<origin, destinations, startDate, budgetLevel,
                   transportType, naturalLanguageInput, useNaturalLanguage,
                   errors, travelers>>
    /\ UNCHANGED <<wizardVars, OutsideWizard>>

\* build.sh:441: TravelersCounter with onChange = setTravelers
FormIncrement(type) ==
    /\ StructuredShown
    /\ type = "adults" => travelers.adults < MaxParty
    /\ Increment(type)
    /\ UNCHANGED <<formVars, wizardVars, OutsideWizard>>

FormDecrement(type) ==
    /\ StructuredShown
    /\ Decrement(type)
    /\ UNCHANGED <<formVars, wizardVars, OutsideWizard>>

\* build.sh:449
setBudgetLevel(level) ==
    /\ StructuredShown
    /\ budgetLevel' = level
    /\ UNCHANGED <<query, isOpen>>
    /\ UNCHANGED <<origin, destinations, startDate, endDate, transportType,
                   naturalLanguageInput, useNaturalLanguage, errors, travelers>>
    /\ UNCHANGED <<wizardVars, OutsideWizard>>

\* build.sh:468 and :479
setTransportType(type) ==
    /\ StructuredShown
    /\ transportType' = type
    /\ UNCHANGED <<query, isOpen>>
    /\ UNCHANGED <<origin, destinations, startDate, endDate, budgetLevel,
                   naturalLanguageInput, useNaturalLanguage, errors, travelers>>
    /\ UNCHANGED <<wizardVars, OutsideWizard>>

\* build.sh:263-268: handleSubmit of a form that does not validate
SubmitRejected ==
    /\ FormShown
    /\ validateForm # {}
    /\ errors' = validateForm
    /\ UNCHANGED <<query, isOpen>>
    /\ UNCHANGED <<origin, destinations, startDate, endDate, budgetLevel,
                   transportType, naturalLanguageInput, useNaturalLanguage,
                   travelers>>
    /\ UNCHANGED <<wizardVars, OutsideWizard>>

\* build.sh:270-284 and NewTripPage.jsx:12-19: a valid natural-language
\* form; handleTripInitSubmit posts the trip at once and awaits the answer
SubmitNaturalLanguage ==
    /\ FormShown
    /\ validateForm = {}
    /\ useNaturalLanguage
    /\ createCount < MaxCreates
    /\ errors' = validateForm
    /\ pendingCreates' = pendingCreates \cup {createTrip(NaturalLanguageTripData)}
    /\ createCount' = createCount + 1
    /\ UNCHANGED <<query, isOpen>>
    /\ UNCHANGED <<origin, destinations, startDate, endDate, budgetLevel,
                   transportType, naturalLanguageInput, useNaturalLanguage,
                   travelers>>
    /\ UNCHANGED <<currentStep, tripData, interests, prefErrors, navigatedTo>>
    /\ UNCHANGED OutsideWizard

\* build.sh:285-298 and NewTripPage.jsx:28-33: a valid structured form;
\* handleTripInitSubmit keeps the data and shows the preferences step
SubmitStructured(east) ==
    /\ FormShown
    /\ validateForm = {}
    /\ ~useNaturalLanguage
    /\ tripData' = StructuredTripData(east)
    /\ currentStep' = 2
    /\ FormUnmount
    /\ interests' = <<>>
    /\ prefErrors' = {}
    /\ UNCHANGED <<pendingCreates, createCount, navigatedTo>>
    /\ UNCHANGED OutsideWizard

\* ==================================================== TripPreferencesForm
\* TripPreferencesForm.jsx:3-16, the first two of the twelve options
INTEREST_OPTIONS == {"art", "history"}

\* TripPreferencesForm.jsx:19 and :24
InitPreferences ==
    /\ interests = <<>>
    /\ prefErrors = {}

\* TripPreferencesForm.jsx:26-32
handleInterestToggle(interest) ==
    /\ PreferencesShown
    /\ interests' =
          IF \E i \in 1..Len(interests) : interests[i] = interest
          THEN SelectSeq(interests, LAMBDA i : i # interest)
          ELSE Append(interests, interest)
    /\ UNCHANGED <<currentStep, tripData, prefErrors, pendingCreates,
                   createCount, navigatedTo>>
    /\ UNCHANGED <<travelers, formVars, OutsideWizard>>

\* a validation that lets every selection pass
validatePreferencesFormLax == {}

\* TripPreferencesForm.jsx:34-43: the keys of newErrors
validatePreferencesForm ==
    IF Len(interests) = 0 THEN {"interests"} ELSE {}

\* TripPreferencesForm.jsx:52-58; the four text inputs are left as they
\* start, the empty string
preferences ==
    [interests |-> interests,
     accommodations |-> <<>>,
     dining_preferences |-> <<>>,
     activities_preferences |-> <<>>,
     special_requirements |-> Null]

\* a merge that loses the preferences
WithPreferencesDropped(data, prefs) == data

\* NewTripPage.jsx:41-44: { ...tripData, preferences }
WithPreferences(data, prefs) == [preferences |-> prefs] @@ data

\* TripPreferencesForm.jsx:45-50: handleSubmit of a form that fails
PreferencesRejected ==
    /\ PreferencesShown
    /\ validatePreferencesForm # {}
    /\ prefErrors' = validatePreferencesForm
    /\ UNCHANGED <<currentStep, tripData, interests, pendingCreates,
                   createCount, navigatedTo>>
    /\ UNCHANGED <<travelers, formVars, OutsideWizard>>

\* TripPreferencesForm.jsx:45-61 and NewTripPage.jsx:36-46: a valid form;
\* handlePreferencesSubmit posts the trip and awaits the answer
PreferencesSubmit ==
    /\ PreferencesShown
    /\ validatePreferencesForm = {}
    /\ createCount < MaxCreates
    /\ prefErrors' = validatePreferencesForm
    /\ pendingCreates' =
          pendingCreates \cup {createTrip(WithPreferences(tripData, preferences))}
    /\ createCount' = createCount + 1
    /\ UNCHANGED <<currentStep, tripData, interests, navigatedTo>>
    /\ UNCHANGED <<travelers, formVars, OutsideWizard>>

\* NewTripPage.jsx:56-59 with :113-114: step 1 is shown again, with a
\* newly mounted TripInitForm; the preferences form leaves the tree
handleBack ==
    /\ PreferencesShown
    /\ currentStep' = 1
    /\ interests' = <<>>
    /\ prefErrors' = {}
    /\ UNCHANGED <<tripData, pendingCreates, createCount, navigatedTo>>
    /\ UNCHANGED <<travelers, formVars, OutsideWizard>>

\* NewTripPage.jsx:19-23 and :46-50: createTrip answered; the page
\* navigates to the itinerary route of response.data.id and the wizard,
\* with its forms, leaves the tree
CreateTripOk(request) ==
    /\ request \in pendingCreates
    /\ pendingCreates' = pendingCreates \ {request}
    /\ navigatedTo' = [tripId |-> request.n]
    /\ currentStep' = 1
    /\ tripData' = Null
    /\ interests' = <<>>
    /\ prefErrors' = {}
    /\ FormUnmount
    /\ UNCHANGED createCount
    /\ UNCHANGED OutsideWizard

\* a rejection that sends the wizard back to a blank step 1
CreateTripFailResets(request) ==
    /\ request \in pendingCreates
    /\ pendingCreates' = pendingCreates \ {request}
    /\ currentStep' = 1
    /\ tripData' = Null
    /\ UNCHANGED <<interests, prefErrors, createCount, navigatedTo>>
    /\ UNCHANGED <<travelers, formVars, OutsideWizard>>

\* NewTripPage.jsx:24-27 and :50-53: createTrip rejected; an alert, and
\* nothing else
CreateTripFail(request) ==
    /\ request \in pendingCreates
    /\ pendingCreates' = pendingCreates \ {request}
    /\ UNCHANGED <<currentStep, tripData, interests, prefErrors, createCount,
                   navigatedTo>>
    /\ UNCHANGED <<travelers, formVars, OutsideWizard>>

\* NewTripPage.jsx:9-10
InitWizard ==
    /\ currentStep = 1
    /\ tripData = Null
    /\ InitPreferences
    /\ pendingCreates = {}
    /\ createCount = 0
    /\ navigatedTo = Null

\* ====================================================== ItineraryTimeline
\* start_time values: 'HH:MM' texts, held as their digits of the hour, or
\* no start_time at all
StartTimes == {Null, [text |-> <<0, 8>>], [text |-> <<1, 3>>]}

\* String.prototype.localeCompare on texts of digits: -1, 0 or 1
RECURSIVE localeCompare(_, _)
localeCompare(s, t) ==
    IF s = <<>> /\ t = <<>> THEN 0
    ELSE IF s = <<>> THEN -1
    ELSE IF t = <<>> THEN 1
    ELSE IF Head(s) < Head(t) THEN -1
    ELSE IF Head(s) > Head(t) THEN 1
    ELSE localeCompare(Tail(s), Tail(t))

\* ItineraryTimeline.jsx:5-9: the comparator handed to Array.prototype.sort
compareEvents(a, b) ==
    IF a.start_time = Null THEN 1
    ELSE IF b.start_time = Null THEN -1
    ELSE localeCompare(a.start_time.text, b.start_time.text)

\* the array with item put behind its first k elements
InsertAt(array, k, item) ==
    [i \in 1..(Len(array) + 1) |->
        IF i <= k THEN array[i] ELSE IF i = k + 1 THEN item ELSE array[i - 1]]

\* insertion point of a binary insertion, which asks comparefn(pivot, element)
RECURSIVE BinaryPosition(_, _, _, _)
BinaryPosition(sorted, pivot, left, right) ==
    IF left >= right THEN left
    ELSE LET mid == (left + right) \div 2
         IN IF compareEvents(pivot, sorted[mid + 1]) < 0
            THEN BinaryPosition(sorted, pivot, left, mid)
            ELSE BinaryPosition(sorted, pivot, mid + 1, right)

\* insertion point of a linear insertion, which asks comparefn(element, item)
RECURSIVE LinearPosition(_, _, _)
LinearPosition(sorted, item, j) ==
    IF j = 0 THEN 0
    ELSE IF compareEvents(sorted[j], item) <= 0 THEN j
    ELSE LinearPosition(sorted, item, j - 1)

\* Array.prototype.sort with the comparator of the timeline. The comparator
\* answers 1 for two events without start_time in either order, so it is
\* not a consistent comparator and ECMAScript leaves the order to the
\* engine: the two insertion sorts that engines run on short arrays
SortEngines == {"binary", "linear"}

RECURSIVE SortPrefix(_, _, _)
SortPrefix(array, n, engine) ==
    IF n = 0 THEN <<>>
    ELSE LET sorted == SortPrefix(array, n - 1, engine)
             k == IF engine = "binary"
                  THEN BinaryPosition(sorted, array[n], 0, n - 1)
                  ELSE LinearPosition(sorted, array[n], n - 1)
         IN InsertAt(sorted, k, array[n])

sort(array, engine) == SortPrefix(array, Len(array), engine)

\* day.activities || [] and day.meals || []; a day may lack either list
OrEmpty(day, list) == IF list \in DOMAIN day THEN day[list] ELSE <<>>

\* event lists of a day: event i of a list carries its place in the day,
\* activities first, as id
EventLists(offset) ==
    UNION {{[i \in 1..n |-> [id |-> offset + i, start_time |-> times[i]]] :
              times \in [1..n -> StartTimes]} : n \in 0..MaxEvents}

Days ==
    {[activities |-> a, meals |-> m] :
        a \in EventLists(0), m \in EventLists(MaxEvents)}
    \cup {[activities |-> a] : a \in EventLists(0)}
    \cup {[meals |-> m] : m \in EventLists(MaxEvents)}

\* Array.prototype.includes; the events of a day are distinct objects
arrayIncludes(array, element) == \E i \in 1..Len(array) : array[i] = element

\* ItineraryTimeline.jsx:18-39: the items of the timeline. The callback of
\* map reads day.activities.includes, a TypeError when the day has no
\* activities list, and then the render returns nothing.
TimelineItems(day, events) ==
    IF events # <<>> /\ "activities" \notin DOMAIN day
    THEN [error |-> "TypeError"]
    ELSE [items |->
            [i \in 1..Len(events) |->
                [event |-> events[i],
                 label |-> IF arrayIncludes(day.activities, events[i])
                           THEN "Activity" ELSE "Meal"]]]

\* ItineraryTimeline.jsx:5-9 and :18-39
Render(engine) ==
    /\ allEvents' = sort(OrEmpty(dayProp, "activities")
                             \o OrEmpty(dayProp, "meals"), engine)
    /\ rendered' = TimelineItems(dayProp,
                                 sort(OrEmpty(dayProp, "activities")
                                          \o OrEmpty(dayProp, "meals"), engine))
    /\ UNCHANGED dayProp
    /\ UNCHANGED <<travelers, pageVars, chatVars, formVars, wizardVars,
                   inputVars>>

\* a timeline that is not on the page
InitDay ==
    /\ dayProp = [activities |-> <<>>, meals |-> <<>>]
    /\ allEvents = <<>>
    /\ rendered = Null

\* ItineraryTimeline.jsx:3: the day prop, before the first render
InitTimeline ==
    /\ dayProp \in Days
    /\ allEvents = <<>>
    /\ rendered = Null

\* ======================================================== specifications
InitPage ==
    /\ tripId \in TripIds
    /\ itinerary = Null
    /\ tripDetails = Null
    /\ loading = TRUE
    /\ activeDay = 1
    /\ loads = {[n |-> 1, id |-> tripId, pc |-> "getTrip"]}
    /\ loadCount = 1
    /\ stored = [id \in TripIds |-> Null]
    /\ generateRequests = [id \in TripIds |-> 0]
    /\ loadsStarted = [id \in TripIds |-> IF id = tripId THEN 1 ELSE 0]
    /\ itineraryTrip = Null
    /\ failedLoads = 0

InitChat ==
    /\ message = <<>>
    /\ chatHistory = InitialChatHistory
    /\ isLoading = FALSE
    /\ timers = {}
    /\ sentCount = 0
    /\ refinements = <<>>

Init ==
    /\ travelers = InitialTravelers
    /\ InitPage
    /\ InitChat
    /\ InitForm
    /\ InitInput
    /\ InitWizard
    /\ InitDay

\* --- the travelers counter of the trip form
NextTravelers ==
    \/ \E type \in TravelerTypes :
          /\ Increment(type)
          /\ UNCHANGED <<pageVars, chatVars, restVars>>
    \/ \E type \in TravelerTypes :
          /\ Decrement(type)
          /\ UNCHANGED <<pageVars, chatVars, restVars>>

SpecTravelers == Init /\ [][NextTravelers]_vars

\* --- the itinerary page: mounts, route changes and loads
Next ==
    \/ \E id \in TripIds : MountPage(id)
    \/ \E id \in TripIds : ChangeTripId(id)
    \/ \E l \in loads : GetTripOk(l)
    \/ \E l \in loads : GetTripFail(l)
    \/ \E l \in loads : GetItineraryOk(l)
    \/ \E l \in loads : GetItineraryNotFound(l)
    \/ \E l \in loads : GetItineraryFail(l)
    \/ \E l \in loads, variant \in GenerationVariants : GenerateOk(l, variant)
    \/ \E l \in loads : GenerateFail(l)
    \/ \E dayNumber \in 1..MaxSpan : handleDayChange(dayNumber)

Spec == Init /\ [][Next]_vars

\* --- the itinerary page when every API call is answered in the end:
\* getTrip (part_003:22), getItinerary (:28) and generateItinerary (:33)
SpecLive ==
    /\ Init
    /\ [][Next]_vars
    /\ WF_vars(\E l \in loads : GetTripOk(l) \/ GetTripFail(l))
    /\ WF_vars(\E l \in loads : GetItineraryOk(l) \/ GetItineraryNotFound(l)
                                   \/ GetItineraryFail(l))
    /\ WF_vars(\E l \in loads : GenerateFail(l)
                  \/ \E variant \in GenerationVariants : GenerateOk(l, variant))

\* --- the itinerary page when getTrip and getItinerary are answered in the
\* end and generateItinerary, a call of long latency, may never be: the
\* axios instance of part_001:4-9 sets no timeout and fetchItinerary starts
\* no timer, so no step of the page ends a call that is not answered
SpecUnanswered ==
    /\ Init
    /\ [][Next]_vars
    /\ WF_vars(\E l \in loads : GetTripOk(l) \/ GetTripFail(l))
    /\ WF_vars(\E l \in loads : GetItineraryOk(l) \/ GetItineraryNotFound(l)
                                   \/ GetItineraryFail(l))

\* --- one load of the itinerary page followed by its refinement chat
NextChat ==
    \/ \E l \in loads : GetTripOk(l)
    \/ \E l \in loads : GetTripFail(l)
    \/ \E l \in loads : GetItineraryNotFound(l)
    \/ \E l \in loads : GetItineraryFail(l)
    \/ \E l \in loads, variant \in GenerationVariants : GenerateOk(l, variant)
    \/ \E l \in loads : GenerateFail(l)
    \/ \E dayNumber \in 1..MaxSpan : handleDayChange(dayNumber)
    \/ \E m \in Messages : setMessage(m)
    \/ \E suggestion \in suggestions : handleSuggestionClick(suggestion)
    \/ handleSendMessage
    \/ \E tm \in timers, threw \in BOOLEAN : TimeoutFires(tm, threw)

SpecChat == Init /\ [][NextChat]_vars

\* --- the chat when every timeout it sets fires in the end
\* (codeBestPractices.md:66: setTimeout of 1500 ms)
SpecChatLive ==
    /\ Init
    /\ [][NextChat]_vars
    /\ WF_vars(\E tm \in timers, threw \in BOOLEAN : TimeoutFires(tm, threw))

\* --- a page whose route changes, with its day selection and its chat
NextDay ==
    \/ \E id \in TripIds : ChangeTripId(id)
    \/ \E l \in loads : GetTripOk(l)
    \/ \E l \in loads : GetItineraryNotFound(l)
    \/ \E l \in loads, variant \in GenerationVariants : GenerateOk(l, variant)
    \/ \E dayNumber \in 1..MaxSpan : handleDayChange(dayNumber)
    \/ \E suggestion \in suggestions : handleSuggestionClick(suggestion)
    \/ handleSendMessage

SpecDay == Init /\ [][NextDay]_vars

\* --- the new-trip route: the wizard in its first state, while the
\* itinerary page waits for its first trip
InitNewTrip ==
    /\ Init
    /\ \A id \in TripIds : tripId <= id

\* --- the structured fields of the trip form, up to the preferences step
NextForm ==
    \/ toggleNaturalLanguage
    \/ \E location \in LocationValues : setOrigin(location)
    \/ \E index \in 1..MaxDestinations, destination \in LocationValues :
          handleDestinationChange(index, destination)
    \/ addDestination
    \/ \E index \in 1..MaxDestinations : removeDestination(index)
    \/ \E date \in DateValues : setStartDate(date)
    \/ \E date \in DateValues : setEndDate(date)
    \/ SubmitRejected
    \/ \E east \in BOOLEAN : SubmitStructured(east)
    \/ handleBack

SpecForm == InitNewTrip /\ [][NextForm]_vars

\* --- the trip form in natural-language mode, with its createTrip calls
NextNatural ==
    \/ toggleNaturalLanguage
    \/ \E text \in DescriptionTexts : setNaturalLanguageInput(text)
    \/ \E index \in 1..MaxDestinations, destination \in LocationValues :
          handleDestinationChange(index, destination)
    \/ \E type \in FormTravelerTypes : FormIncrement(type)
    \/ \E type \in FormTravelerTypes : FormDecrement(type)
    \/ \E level \in BudgetLevels : setBudgetLevel(level)
    \/ \E type \in TransportTypes : setTransportType(type)
    \/ SubmitRejected
    \/ SubmitNaturalLanguage
    \/ \E request \in pendingCreates : CreateTripOk(request)
    \/ \E request \in pendingCreates : CreateTripFail(request)

SpecNatural == InitNewTrip /\ [][NextNatural]_vars

\* --- the new-trip wizard: both steps and the createTrip calls
NextWizard ==
    \/ toggleNaturalLanguage
    \/ \E text \in DescriptionTexts : setNaturalLanguageInput(text)
    \/ \E location \in LocationValues : setOrigin(location)
    \/ \E index \in 1..MaxDestinations, destination \in LocationValues :
          handleDestinationChange(index, destination)
    \/ \E date \in DateValues : setStartDate(date)
    \/ \E date \in DateValues : setEndDate(date)
    \/ SubmitRejected
    \/ SubmitNaturalLanguage
    \/ \E east \in BOOLEAN : SubmitStructured(east)
    \/ \E interest \in INTEREST_OPTIONS : handleInterestToggle(interest)
    \/ PreferencesRejected
    \/ PreferencesSubmit
    \/ \E request \in pendingCreates : CreateTripOk(request)
    \/ \E request \in pendingCreates : CreateTripFail(request)

SpecWizard == InitNewTrip /\ [][NextWizard]_vars

\* --- trip data handed to the trip-creation functions: the structured form
\* with every value its state can hold, the travelers not clamped by the
\* counter
TravelersValues ==
    {[adults |-> a, children |-> 0, infants |-> i] :
        a \in MinAdults..MaxParty, i \in 0..MaxParty}

InitBoundary ==
    /\ travelers \in TravelersValues
    /\ InitPage
    /\ \A id \in TripIds : tripId <= id
    /\ InitChat
    /\ origin \in LocationValues
    /\ destinations = <<CHOOSE location \in MOCK_LOCATIONS : TRUE>>
    /\ startDate \in DateValues
    /\ endDate \in DateValues
    /\ budgetLevel = "MODERATE"
    /\ transportType = "AIR"
    /\ naturalLanguageInput = <<>>
    /\ useNaturalLanguage = FALSE
    /\ errors = {}
    /\ query = MountedQuery(origin, destinations)
    /\ isOpen = MountedOpen(destinations)
    /\ InitInput
    /\ InitWizard
    /\ InitDay

NextBoundary ==
    \/ SubmitRejected
    \/ \E east \in BOOLEAN : SubmitStructured(east)
    \/ \E interest \in INTEREST_OPTIONS : handleInterestToggle(interest)
    \/ PreferencesRejected
    \/ PreferencesSubmit
    \/ \E request \in pendingCreates : CreateTripOk(request)
    \/ \E request \in pendingCreates : CreateTripFail(request)

SpecBoundary == InitBoundary /\ [][NextBoundary]_vars

\* --- the timeline of a day, rendered by either engine
InitRender ==
    /\ travelers = InitialTravelers
    /\ InitPage
    /\ \A id \in TripIds : tripId <= id
    /\ InitChat
    /\ InitForm
    /\ InitInput
    /\ InitWizard
    /\ InitTimeline

NextTimeline == \E engine \in SortEngines : Render(engine)

SpecTimeline == InitRender /\ [][NextTimeline]_vars

\* --- the location inputs of the structured trip form
NextAutocomplete ==
    \/ toggleNaturalLanguage
    \/ addDestination
    \/ \E index \in 1..MaxDestinations : removeDestination(index)
    \/ \E field \in FieldIds, text \in InputTexts :
          handleInputChange(field, text)
    \/ \E field \in FieldIds, location \in MOCK_LOCATIONS :
          handleSelectLocation(field, location)
    \/ \E field \in FieldIds : handleFocus(field)
    \/ \E target \in FieldIds \cup {[id |-> "document"]} :
          handleClickOutside(target)

SpecAutocomplete == InitNewTrip /\ [][NextAutocomplete]_vars

\* ============================================================ properties
\* C1: starting from {adults: 1, children: 0, infants: 0}, every sequence of
\* increments and decrements keeps 1 <= adults <= 10, 0 <= children <= 10
\* and 0 <= infants <= adults.
TravelersInRange ==
    /\ MinAdults <= travelers.adults /\ travelers.adults <= MaxAdults
    /\ 0 <= travelers.children /\ travelers.children <= MaxChildren
    /\ 0 <= travelers.infants /\ travelers.infants <= travelers.adults

\* every adult accompanies an infant, so a decrement of adults is clamped
TravelersAtInfantFloor ==
    /\ travelers.adults > MinAdults
    /\ travelers.infants = travelers.adults
    /\ travelers.children = MaxChildren

\* a step in which a refinement request reached handleRefinementSubmit
RefinementStep == Len(refinements') = Len(refinements) + 1

LastRefinement == refinements[Len(refinements)]

HasVersion(it) == it # Null /\ "version" \in DOMAIN it

SentAlert == RefinementAlert(FALSE)
FailedAlert == RefinementAlert(TRUE)

\* C2: a refinement with target day d leaves every day with
\* day_number # d exactly as it was (date, day_number, events).
OtherDaysUntouched ==
    [][RefinementStep =>
        LET d == refinements'[Len(refinements')].request.specific_day
        IN  /\ Len(itinerary'.days) = Len(itinerary.days)
            /\ \A i \in 1..Len(itinerary.days) :
                  itinerary.days[i].day_number # d
                      => itinerary'.days[i] = itinerary.days[i]]_vars

\* a refinement aimed at day 2 of an itinerary of several days was handled
RefinedDayTwo ==
    /\ refinements # <<>>
    /\ LastRefinement.request.specific_day = 2
    /\ LastRefinement.alert = SentAlert
    /\ Len(itinerary.days) >= 2

\* C3: a refinement reported as applied leaves the page with an itinerary
\* whose version is the version before plus 1.
AppliedRefinementBumpsVersion ==
    [][(RefinementStep
          /\ refinements'[Len(refinements')].reply = aiResponse
          /\ refinements'[Len(refinements')].alert = SentAlert
          /\ HasVersion(itinerary))
        => (HasVersion(itinerary')
              /\ itinerary'.version = itinerary.version + 1)]_vars

\* C4: a refinement that fails leaves the page with exactly the itinerary
\* it held before (same days, same total, same version).
FailedRefinementChangesNothing ==
    [][(RefinementStep /\ refinements'[Len(refinements')].alert = FailedAlert)
        => itinerary' = itinerary]_vars

\* a refinement failed and the itinerary it was sent against is still held
RefinementFailed ==
    /\ refinements # <<>>
    /\ LastRefinement.alert = FailedAlert
    /\ itinerary # Null
    /\ itinerary = LastRefinement.against

\* C5: of two refinements computed against the same version k, the first
\* yields version k + 1 and the second fails with ConcurrencyConflict.
SecondCommitConflicts ==
    \A i, j \in 1..Len(refinements) :
        (/\ i < j
         /\ HasVersion(refinements[i].against)
         /\ refinements[j].against = refinements[i].against
         /\ refinements[i].alert = SentAlert)
        => /\ HasVersion(refinements[i].result)
           /\ refinements[i].result.version
                 = refinements[i].against.version + 1
           /\ refinements[j].alert = "ConcurrencyConflict"
           /\ refinements[j].result = refinements[i].result

\* C6: the days of an accepted itinerary are numbered 1..N without gaps or
\* duplicates, in ascending order, N being the inclusive span in days of
\* the trip the itinerary was accepted with.
DaysRunOneToSpan ==
    itinerary # Null =>
        /\ \A i \in 1..Len(itinerary.days) : itinerary.days[i].day_number = i
        /\ Len(itinerary.days)
              = InclusiveSpan(itineraryTrip.start_date, itineraryTrip.end_date)

\* C7: total_cost_estimate of an accepted itinerary is the sum of the cost
\* estimates of all its activities, meals and accommodations, in cents.
TotalIsSumOfCosts ==
    itinerary # Null => itinerary.total_cost_estimate = SumDays(itinerary.days)

GenerateOncePerTrip ==
    \A id \in TripIds : generateRequests[id] <= 1

\* C9 amended: no more than one generateItinerary request is issued per
\* load of the itinerary page, so the requests issued for a trip never
\* outnumber the loads started for it.
GenerateOncePerLoad ==
    \A id \in TripIds : generateRequests[id] <= loadsStarted[id]

\* every load of a trip loaded repeatedly asked for a generation
GeneratedOnEveryLoad ==
    \E id \in TripIds :
        generateRequests[id] >= 2 /\ generateRequests[id] = loadsStarted[id]

\* C10: a load that fails sets the canned trip and the canned itinerary,
\* and once a load has failed the page is never in the not-found state.
FailedLoadShowsFallback ==
    /\ [][failedLoads' = failedLoads + 1 =>
            \E l \in loads :
                /\ l \notin loads'
                /\ tripDetails' = mockTripDetails(l.id)
                /\ itinerary' = mockItinerary(l.id)
                /\ ~loading']_vars
    /\ [](failedLoads > 0 => ~NotFoundShown)

\* a load failed at getTrip and nothing else is in flight
LoadFailedAndSettled ==
    /\ failedLoads > 0
    /\ loads = {}
    /\ ~loading
    /\ itinerary # Null /\ "version" \notin DOMAIN itinerary

\* C11: every createTrip request follows one of two paths: it is flagged
\* natural-language and carries a non-blank description, or it is not
\* flagged and carries an origin with city and country, a start date and an
\* end date; no other request is ever sent.
TwoPathRule ==
    \A r \in pendingCreates :
        \/ /\ r.body.use_natural_language
           /\ Trim(r.body.natural_language_input) # <<>>
           /\ r.url = "/trips/natural"
        \/ /\ ~r.body.use_natural_language
           /\ IsCompleteLocation(r.body.origin)
           /\ r.body.start_date # Null
           /\ r.body.end_date # Null
           /\ r.url = "/trips/"

\* a request of either path awaits its answer
BothPathsRequested ==
    \E r1 \in pendingCreates, r2 \in pendingCreates :
        r1.body.use_natural_language /\ ~r2.body.use_natural_language

\* C12: a trip submitted in natural-language mode carries one adult and no
\* children or infants, MODERATE, AIR and no destinations, whatever the
\* structured fields of the form hold.
NaturalLanguageDefaults ==
    \A r \in pendingCreates :
        r.body.use_natural_language =>
            /\ r.body.travelers = [adults |-> 1, children |-> 0, infants |-> 0]
            /\ r.body.budget_level = "MODERATE"
            /\ r.body.transport_type = "AIR"
            /\ r.body.destinations = <<>>

\* a natural-language request sent from a form whose structured fields
\* were edited before the user toggled back
DefaultsOverEdits ==
    /\ FormShown
    /\ useNaturalLanguage
    /\ travelers.adults > 1
    /\ travelers.infants > 0
    /\ budgetLevel = "LUXURY"
    /\ transportType = "ROAD"
    /\ IsCompleteLocation(destinations[1])
    /\ \E r \in pendingCreates : r.body.use_natural_language

\* C13: the trip form always holds at least one destination row, and the
\* trip a structured form hands over has at least one destination, each
\* with a city and a country.
DestinationsNeverEmpty ==
    /\ Len(destinations) >= 1
    /\ tripData # Null =>
          /\ Len(tripData.destinations) >= 1
          /\ \A i \in 1..Len(tripData.destinations) :
                IsCompleteLocation(tripData.destinations[i])

\* a structured form with as many rows as it may have was handed over
SeveralDestinationsSubmitted ==
    /\ currentStep = 2
    /\ tripData # Null
    /\ Len(tripData.destinations) = MaxDestinations

\* C14: a trip handed over by the structured form starts no later than it
\* ends; a form whose start date is after its end date hands nothing over,
\* and a submission of it shows the dateRange error.
StartNotAfterEnd ==
    [][/\ tripData' # Null =>
             DateLeq(tripData'.start_date, tripData'.end_date)
       /\ (/\ StructuredShown
           /\ startDate # Null
           /\ endDate # Null
           /\ startDate.time > endDate.time)
          => /\ tripData' = tripData
             /\ currentStep' = currentStep
             /\ errors' # errors => "dateRange" \in errors']_vars

\* a form with start after end was submitted and shows the error
DateRangeRejected ==
    /\ StructuredShown
    /\ startDate # Null
    /\ endDate # Null
    /\ startDate.time > endDate.time
    /\ "dateRange" \in errors

InterestsRequired ==
    [][/\ \A r \in pendingCreates' :
             ~r.body.use_natural_language =>
                 Len(r.body.preferences.interests) > 0
       /\ (PreferencesShown /\ interests = <<>>)
          => /\ pendingCreates' \subseteq pendingCreates
             /\ createCount' = createCount
             /\ (PreferencesShown' /\ prefErrors' # prefErrors)
                => "interests" \in prefErrors']_vars

\* a preferences form without interests was submitted and shows the error
NoInterestsRejected ==
    /\ PreferencesShown
    /\ interests = <<>>
    /\ "interests" \in prefErrors
    /\ pendingCreates = {}

\* C17: the rendered events are in ascending order of start_time, the
\* events without start_time come last, and those keep the order they have
\* in the day (activities, then meals).
TimelineOrderedStable ==
    \A i \in 1..Len(allEvents), j \in 1..Len(allEvents) :
        i < j =>
            IF allEvents[i].start_time = Null
            THEN /\ allEvents[j].start_time = Null
                 /\ allEvents[i].id < allEvents[j].id
            ELSE \/ allEvents[j].start_time = Null
                 \/ localeCompare(allEvents[i].start_time.text,
                                  allEvents[j].start_time.text) <= 0

\* C18: no two createTrip requests for the same trip data await their
\* answer at the same time.
SameTripCreatedOnce ==
    \A r1 \in pendingCreates, r2 \in pendingCreates :
        r1.body = r2.body => r1 = r2

\* C19: a request of the structured path is issued from the preferences
\* step only, with interests selected, and it carries the preferences of
\* the form next to every field of the step-1 trip data.
FinalizedWithPreferences ==
    [][\A r \in pendingCreates' \ pendingCreates :
          ~r.body.use_natural_language =>
              /\ currentStep = 2
              /\ interests # <<>>
              /\ "preferences" \in DOMAIN r.body
              /\ r.body.preferences.interests = interests
              /\ \A f \in DOMAIN tripData : r.body[f] = tripData[f]]_vars

\* a structured request with two interests awaits its answer
StructuredRequestPending ==
    \E r \in pendingCreates :
        /\ ~r.body.use_natural_language
        /\ Len(r.body.preferences.interests) = 2

\* C20: while the message is empty or white space only, no message is
\* sent: no request is prepared, the chat does not start loading, and the
\* chat history changes only by the reply to an earlier message.
BlankMessageNotSent ==
    [][Trim(message) = <<>> =>
          /\ sentCount' = sentCount
          /\ timers' \subseteq timers
          /\ isLoading' => isLoading
          /\ \/ chatHistory' = chatHistory
             \/ /\ timers' # timers
                /\ chatHistory' = Append(chatHistory,
                      [role |-> "assistant", content |-> aiResponse])]_vars

\* white space was typed after an earlier message got its reply
BlankMessageTyped ==
    /\ Displayed
    /\ message = <<" ">>
    /\ ~isLoading
    /\ timers = {}
    /\ sentCount = 1

\* C21: when every API call is answered, a page that is loading stops
\* loading, and a page that is not loading shows an itinerary with its trip
\* details or the not-found state.
LoadTerminates ==
    loading ~> (~loading /\ (Displayed \/ NotFoundShown))

\* every load the page started has ended, the last of them in the catch
\* block
AllLoadsEnded ==
    /\ loadCount = MaxLoads
    /\ loads = {}
    /\ ~loading
    /\ failedLoads > 0

\* C22: a page that waits for generateItinerary stops loading in the end,
\* answered or not.
GenerationTimesOut ==
    (\E l \in loads : l.pc = "generateItinerary") ~> ~loading

\* C23: once the page is not loading, the itinerary and the trip details it
\* displays are those of the trip of the current route.
DisplayedTripIsCurrent ==
    Displayed => itinerary.trip_id = tripId /\ tripDetails.id = tripId

\* C27: a generateItinerary request for a trip is issued only by a load of
\* that trip that got its trip details and then a 404 from getItinerary (no
\* itinerary stored); a load that leaves getItinerary any other way issues
\* none.
GenerateOnlyAfterNotFound ==
    [][\A id \in TripIds :
          /\ generateRequests'[id] > generateRequests[id] =>
                \E l \in loads :
                    /\ l.id = id
                    /\ l.pc = "getItinerary"
                    /\ stored[id] = Null
                    /\ [l EXCEPT !.pc = "generateItinerary"] \in loads'
          /\ (\E l \in loads :
                  /\ l.id = id
                  /\ l.pc = "getItinerary"
                  /\ l \notin loads'
                  /\ [l EXCEPT !.pc = "generateItinerary"] \notin loads')
             => generateRequests'[id] = generateRequests[id]]_vars

\* a trip was generated by one load and fetched by a later one
GeneratedThenFetched ==
    \E id \in TripIds :
        /\ generateRequests[id] = 1
        /\ loadsStarted[id] >= 2
        /\ loads = {}
        /\ failedLoads = 0

\* C24: the request prepared when a message is sent names the day the page
\* displays: its specific_day is the day_number of currentDayItinerary.
SpecificDayIsDisplayedDay ==
    [][sentCount' = sentCount + 1 =>
          \A tm \in timers' :
              tm.n = sentCount' =>
                  tm.request.specific_day = currentDayItinerary.day_number]_vars

\* C25: a mounted chat awaits at most one reply: it is loading exactly
\* while one of its timeouts is pending, and while it is loading no message
\* is sent, whatever the message field holds.
OneRefinementInFlight ==
    [][/\ Cardinality({tm \in timers' : tm.live}) <= 1
       /\ isLoading' <=> \E tm \in timers' : tm.live
       /\ isLoading => sentCount' = sentCount]_vars

\* a suggestion was clicked while the reply to a message is awaited
SuggestionWhileLoading ==
    /\ isLoading
    /\ message \in suggestions
    /\ timers # {}

\* C26: every message sent is answered once. The history starts with the
\* greeting and then holds, per message, the user entry and the reply after
\* it; onSubmit ran once per reply, with the text sent; the history only
\* grows; a send appends the message and prepares a request with the text
\* and the active day; and a loading chat stops loading.
SentMessageAnswered ==
    /\ [](/\ Len(chatHistory) =
                1 + 2 * sentCount - (IF isLoading THEN 1 ELSE 0)
          /\ \A k \in 1..sentCount :
                /\ chatHistory[2 * k].role = "user"
                /\ 2 * k + 1 <= Len(chatHistory) =>
                      chatHistory[2 * k + 1] =
                          [role |-> "assistant", content |-> aiResponse]
          /\ Len(refinements) = sentCount - Cardinality(timers)
          /\ \A k \in 1..Len(refinements) :
                refinements[k].request.natural_language_request =
                    chatHistory[2 * k].content)
    /\ [][/\ Len(chatHistory') >= Len(chatHistory)
          /\ SubSeq(chatHistory', 1, Len(chatHistory)) = chatHistory
          /\ sentCount' = sentCount + 1 =>
                /\ chatHistory' = Append(chatHistory,
                                         [role |-> "user", content |-> message])
                /\ \E tm \in timers' \ timers :
                      tm.request = [natural_language_request |-> message,
                                    specific_day |-> activeDay]]_vars
    /\ (isLoading ~> ~isLoading)

\* two messages were sent and both were answered
TwoMessagesAnswered ==
    /\ sentCount = MaxRefinements
    /\ Len(refinements) = MaxRefinements
    /\ ~isLoading
    /\ Len(chatHistory) = 1 + 2 * MaxRefinements

\* C28: the wizard navigates only when a pending createTrip is answered, and
\* then to the id of that answer; an answer without navigation, a rejection,
\* leaves the step and the trip data of step 1 as they were.
NavigatesOnlyAfterCreate ==
    [][/\ navigatedTo' # navigatedTo =>
             \E request \in pendingCreates :
                 /\ request \notin pendingCreates'
                 /\ navigatedTo' = [tripId |-> request.n]
       /\ (/\ \E request \in pendingCreates : request \notin pendingCreates'
           /\ navigatedTo' = navigatedTo) =>
             /\ currentStep' = currentStep
             /\ tripData' = tripData]_vars

\* every createTrip was rejected and the wizard still shows step 2 with the
\* trip data of step 1
CreateRejectedAtStepTwo ==
    /\ createCount = MaxCreates
    /\ pendingCreates = {}
    /\ navigatedTo = Null
    /\ currentStep = 2
    /\ tripData # Null

\* C29: after a change event the input shows the text typed and the value
\* of the form is null; after the click on a suggestion the value is the
\* location clicked and the dropdown is closed.
InputShowsTypedText ==
    [][inputCount' = inputCount + 1 =>
          \A field \in FieldIds :
              inputEvent'.target = field =>
                  IF inputEvent'.type = "change"
                  THEN /\ queryOf(field)' = inputEvent'.value
                       /\ valueOf(field)' = Null
                  ELSE /\ valueOf(field)' = inputEvent'.location
                       /\ ~isOpenOf(field)']_vars

\* C30: a render leaves the day as it was and returns one item per event of
\* the day, each event of its activities and of its meals in exactly one
\* item, labelled Activity when it is one of the activities and Meal when
\* it is one of the meals.
EveryEventShownOnce ==
    [][rendered' # rendered =>
          /\ dayProp' = dayProp
          /\ "items" \in DOMAIN rendered'
          /\ Len(rendered'.items)
                = Len(OrEmpty(dayProp, "activities"))
                    + Len(OrEmpty(dayProp, "meals"))
          /\ \A i \in 1..Len(OrEmpty(dayProp, "activities")) :
                \E j \in 1..Len(rendered'.items) :
                    rendered'.items[j] =
                        [event |-> dayProp.activities[i], label |-> "Activity"]
          /\ \A i \in 1..Len(OrEmpty(dayProp, "meals")) :
                \E j \in 1..Len(rendered'.items) :
                    rendered'.items[j] =
                        [event |-> dayProp.meals[i], label |-> "Meal"]]_vars

================================================================
